---- MODULE Spec2Model ----
(***************************************************************************)
(* Oat position combiner (src/src/positioncombiner/PositionCombiner.cpp)   *)
(* together with the shared-memory dataflow primitives it is built from    *)
(* (lib/shmemdf Sink / Source / Node, described in spec.md sections 3-5).  *)
(*                                                                         *)
(* Further specifications: the rate checker on its own (RateSpec), the    *)
(* pipeline start with a contended bind() (BindSpec), and the configure()  *)
(* of FileReader, RandomAccel2D and HomographyGenerator (ConfigSpec).      *)
(*                                                                         *)
(* Processes:                                                              *)
(*   - one upstream producer per source address (owner of a Sink),         *)
(*   - the combiner (a Source on every upstream node, the Sink of the      *)
(*     downstream node),                                                    *)
(*   - downstream consumers (each a Source on the downstream node).        *)
(*                                                                         *)
(* Design decisions taken where spec.md leaves the library open:           *)
(*   - the Node header is reachable by address from either side, so a      *)
(*     touch() may precede the bind(); bind() leaves reader_count alone;   *)
(*   - a reader is registered for the epochs posted after its touch():     *)
(*     touch() records the epoch current at that time as already seen;     *)
(*   - at END every wait() returns END, also when an epoch is pending;     *)
(*   - connect() waits until the Sink has bound the node (the "synchronous *)
(*     start" of PositionCombiner.cpp:67, a blocking point of spec.md 5).  *)
(***************************************************************************)
EXTENDS Integers, Sequences, FiniteSets, TLC

\* ------------------------------------------------------------------ bounds
NumSources == 2
MaxEpoch == 2
NumReaders == 1
MaxPeriods == 3

Sources == 0 .. (NumSources - 1)
SinkNode == NumSources
Nodes == 0 .. NumSources
Readers == 1 .. NumReaders
COMBINER == 0

\* sample period advertised by upstream node n, in milliseconds
period_sec(n) == IF n = 0 THEN 20 ELSE 25

NoPos == <<0, 0>>

\* a configuration file: whether it parses, whether it holds the table config_key,
\* and the state of each entry of that table
NoConfig == [parses |-> TRUE, table |-> TRUE, rate |-> "absent", roi |-> "absent",
             calibration |-> "absent", unknown |-> FALSE]

VARIABLES
    bound,              \* bound[n]: a Sink has created the segment of node n
    node,               \* node[n]: the Node header of segment n
    slot,               \* slot[n]: the payload slot <<x, y>> of segment n
    registered,         \* registered[n]: identities recorded by touch()
    unacked,            \* unacked[n]: readers counted by the last Sink post() that have not post()ed
    ppc,                \* ppc[i]: position of upstream producer i
    pc,                 \* position of the combiner
    i,                  \* the combiner's loop index
    src_epoch,          \* src_epoch[i]: epoch last acknowledged by position_sources_[i]
    positions_,         \* the combiner's local copies
    internal_position_, \* the combined value
    all_ts,             \* periods collected by connectToNodes()
    warned,             \* connectToNodes() printed the rate warning
    ret,                \* return value of the last process() call
    calls,              \* library calls made by the current process() call
    got,                \* got[i]: epoch of node i at the combiner's last clone()
    rpc,                \* rpc[r]: position of downstream reader r
    r_epoch,            \* r_epoch[r]: epoch last acknowledged by reader r
    r_copy,             \* r_copy[r]: reader r's last clone()
    r_got,              \* r_got[r]: epoch of the downstream node at reader r's last clone()
    n_acked,            \* n_acked[i]: number of post() calls made on position_sources_[i]
    rival_owns,         \* rival_owns[n]: a process outside the pipeline holds the Sink of node n
    rival_res,          \* result of the last bind() of a process outside the pipeline
    periods,            \* the sample periods handed to the rate checker, in milliseconds
    rate_pc,            \* position of the rate checker's caller
    consistent,         \* the rate checker's return value
    sample_rate_hz,     \* the rate checker's effective rate
    cfg_comp,           \* the component whose configure() runs
    cfg_in,             \* the content of the configuration file
    cfg_pc,             \* position in configure()
    cfg_set,            \* the members configure() has assigned
    position_source_addresses, \* of each combiner of a network of combiners
    c_pc,               \* c_pc[k]: position of combiner k of the network in connectToNodes()
    c_i,                \* c_i[k]: the source combiner k of the network connects next
    c_bound,            \* c_bound[a]: a Sink has created the segment of address a of the network
    pixels_,            \* the calibrator's clicked pixel points
    world_points_,      \* the calibrator's entered world points
    mouse_pt_,          \* the calibrator's last clicked point
    clicked_,           \* the calibrator has seen a click
    method_,            \* the calibrator's estimation method
    homography_,        \* the calibrator's homography matrix
    homography_valid_,  \* the calibrator's validity flag
    fit_current,        \* the data set is the one homography_ was computed from
    cal_op,             \* the calibrator's last operation
    cal_ret,            \* the return value of the calibrator's last operation
    sample_period_in_seconds, \* RandomAccel2D: the sample period, in milliseconds
    state_transition_mat,     \* RandomAccel2D: the dt-dependent entry of the matrix
    input_mat,          \* RandomAccel2D: the dt-dependent entries of the matrix
    state_,             \* RandomAccel2D: <<position, velocity>> of one axis
    ra_pc,              \* position of the owner of the RandomAccel2D object
    ra_steps            \* number of simulateMotion() steps taken

nodeVars == <<bound, node, slot, registered, unacked>>
prodVars == <<ppc>>
combVars == <<pc, i, src_epoch, positions_, internal_position_, all_ts, warned, ret, calls, got,
              n_acked>>
readVars == <<rpc, r_epoch, r_copy, r_got>>
rivalVars == <<rival_owns, rival_res>>
rateVars == <<periods, rate_pc, consistent, sample_rate_hz>>
cfgVars == <<cfg_comp, cfg_in, cfg_pc, cfg_set>>
netVars == <<position_source_addresses, c_pc, c_i, c_bound>>
calVars == <<pixels_, world_points_, mouse_pt_, clicked_, method_, homography_,
             homography_valid_, fit_current, cal_op, cal_ret>>
motionVars == <<sample_period_in_seconds, state_transition_mat, input_mat, state_, ra_pc,
                ra_steps>>
\* the variables that are not part of the combiner pipeline
sideVars == <<rival_owns, rival_res, periods, rate_pc, consistent, sample_rate_hz,
              cfg_comp, cfg_in, cfg_pc, cfg_set, position_source_addresses, c_pc, c_i,
              c_bound, pixels_, world_points_, mouse_pt_, clicked_, method_, homography_,
              homography_valid_, fit_current, cal_op, cal_ret, sample_period_in_seconds,
              state_transition_mat, input_mat, state_, ra_pc, ra_steps>>
vars == <<bound, node, slot, registered, unacked, ppc, pc, i, src_epoch, positions_,
          internal_position_, all_ts, warned, ret, calls, got, rpc, r_epoch, r_copy, r_got,
          n_acked, rival_owns, rival_res, periods, rate_pc, consistent, sample_rate_hz,
          cfg_comp, cfg_in, cfg_pc, cfg_set, position_source_addresses, c_pc, c_i,
          c_bound, pixels_, world_points_, mouse_pt_, clicked_, method_, homography_,
          homography_valid_, fit_current, cal_op, cal_ret, sample_period_in_seconds,
          state_transition_mat, input_mat, state_, ra_pc, ra_steps>>

\* ------------------------------------------------- Node / Sink / Source
InitNode == [state |-> "INIT", epoch |-> 0, reader_count |-> 0, pending_acks |-> 0]

Rank(s) == CASE s = "INIT" -> 0 [] s = "RUNNING" -> 1 [] s = "END" -> 2

\* variant of SinkWaitEnabled: a blocked wait() is not woken by END
SinkWaitEnabled_NoWake(n) == node[n].pending_acks = 0

\* Sink<T>::wait(): blocks until all readers of the previous epoch acknowledged, or END
SinkWaitEnabled(n) == node[n].state = "END" \/ node[n].pending_acks = 0

SinkWaitResult(n) == IF node[n].state = "END" THEN "END" ELSE "RUNNING"

\* Sink<T>::post(): advance the epoch, publish, expect one acknowledgement per reader
SinkPostNode(nd) ==
    [nd EXCEPT !.epoch = @ + 1,
               !.pending_acks = nd.reader_count,
               !.state = IF @ = "INIT" THEN "RUNNING" ELSE @]

\* Source<T>::touch(): register the reader
SourceTouchNode(nd) == [nd EXCEPT !.reader_count = @ + 1]

\* Source<T>::connect(): blocks until the Sink has bound the node
SourceConnectEnabled(n) == bound[n]

\* Source<T>::connect(): attach; the first attach moves INIT to RUNNING
SourceConnectNode(nd) == [nd EXCEPT !.state = IF @ = "INIT" THEN "RUNNING" ELSE @]

\* variant of SourceWaitEnabled: the epoch already acknowledged counts as new
SourceWaitEnabled_Stale(n, last) == node[n].state = "END" \/ node[n].epoch >= last

\* Source<T>::wait(): blocks until an epoch this reader has not acknowledged exists, or END
SourceWaitEnabled(n, last) == node[n].state = "END" \/ node[n].epoch > last

SourceWaitResult(n) == IF node[n].state = "END" THEN "END" ELSE "RUNNING"

\* Source<T>::post(): acknowledge the current epoch
SourcePostNode(nd) == [nd EXCEPT !.pending_acks = @ - 1]

\* RUNNING -> END, by the owner's shutdown or the detection of its termination
EndNode(nd) == [nd EXCEPT !.state = "END"]

\* oat::checkSamplePeriods: consistent iff all periods agree
checkSamplePeriods(ts) == \A a, b \in 1 .. Len(ts) : ts[a] = ts[b]

RECURSIVE MaxUpTo(_, _)
MaxUpTo(ts, k) == IF k = 1 THEN ts[1]
                  ELSE LET m == MaxUpTo(ts, k - 1) IN IF ts[k] > m THEN ts[k] ELSE m

\* the largest period of a non-empty sequence
MaxPeriod(ts) == MaxUpTo(ts, Len(ts))

\* variant of effective_rate_hz: the rate of the first period
effective_rate_hz_First(ts) == 1000 \div ts[1]

\* oat::checkSamplePeriods, the rate it stores: 1 / max(periods), periods in milliseconds
effective_rate_hz(ts) == 1000 \div MaxPeriod(ts)

\* PositionCombiner::combine (pure virtual): component-wise sum of the local copies
RECURSIVE SumX(_, _)
SumX(ps, k) == IF k = 0 THEN <<0, 0>>
               ELSE LET s == SumX(ps, k - 1) IN <<s[1] + ps[k][1], s[2] + ps[k][2]>>

combine(ps) == SumX(ps, Len(ps))

Call(op, n, res) == [op |-> op, src |-> n, res |-> res]

\* -------------------------------------------------------------------- Init
PipelineInit ==
    /\ bound = [n \in Nodes |-> FALSE]
    /\ node = [n \in Nodes |-> InitNode]
    /\ slot = [n \in Nodes |-> NoPos]
    /\ registered = [n \in Nodes |-> {}]
    /\ unacked = [n \in Nodes |-> {}]
    /\ ppc = [p \in Sources |-> "bind"]
    /\ pc = "touch"
    /\ i = 0
    /\ src_epoch = [s \in Sources |-> 0]
    /\ positions_ = [s \in 1 .. NumSources |-> NoPos]
    /\ internal_position_ = NoPos
    /\ all_ts = <<>>
    /\ warned = FALSE
    /\ ret = "none"
    /\ calls = <<>>
    /\ got = [s \in Sources |-> 0]
    /\ rpc = [r \in Readers |-> "touch"]
    /\ r_epoch = [r \in Readers |-> 0]
    /\ r_copy = [r \in Readers |-> NoPos]
    /\ r_got = [r \in Readers |-> 0]
    /\ n_acked = [s \in Sources |-> 0]
    /\ rival_owns = [n \in Nodes |-> FALSE]
    /\ rival_res = "none"

\* the rate checker is not in use
RateIdle ==
    /\ periods = <<>>
    /\ rate_pc = "idle"
    /\ consistent = FALSE
    /\ sample_rate_hz = 0

\* no configure() is running
ConfigIdle ==
    /\ cfg_comp = "none"
    /\ cfg_in = NoConfig
    /\ cfg_pc = "idle"
    /\ cfg_set = {}

\* no network of combiners is running
NetIdle ==
    /\ position_source_addresses = <<>>
    /\ c_pc = <<>>
    /\ c_i = <<>>
    /\ c_bound = <<>>

\* no calibrator is running
CalibIdle ==
    /\ pixels_ = <<>>
    /\ world_points_ = <<>>
    /\ mouse_pt_ = 0
    /\ clicked_ = FALSE
    /\ method_ = "ROBUST"
    /\ homography_ = "empty"
    /\ homography_valid_ = FALSE
    /\ fit_current = FALSE
    /\ cal_op = "idle"
    /\ cal_ret = 0

\* no RandomAccel2D object exists
MotionIdle ==
    /\ sample_period_in_seconds = 0
    /\ state_transition_mat = 0
    /\ input_mat = <<0, 0>>
    /\ state_ = <<0, 0>>
    /\ ra_pc = "idle"
    /\ ra_steps = 0

ToolsIdle == NetIdle /\ CalibIdle /\ MotionIdle

Init == PipelineInit /\ RateIdle /\ ConfigIdle /\ ToolsIdle

\* ------------------------------------------------------ upstream producers
\* A producer binds its Sink, then repeats wait(); write; post() until it shuts its
\* node down.  One publication is one step: the wait() returns RUNNING, the payload
\* (the sample number, in both members) is written and post()ed.
ProducerBind(p) ==
    /\ ppc[p] = "bind"
    /\ IF bound[p]
          THEN ppc' = [ppc EXCEPT ![p] = "failed"] /\ UNCHANGED bound
          ELSE ppc' = [ppc EXCEPT ![p] = "wait"] /\ bound' = [bound EXCEPT ![p] = TRUE]
    /\ UNCHANGED <<node, slot, registered, unacked>>
    /\ UNCHANGED <<combVars, readVars>>
    /\ UNCHANGED sideVars

ProducerPublish(p) ==
    /\ ppc[p] = "wait"
    /\ SinkWaitEnabled(p)
    /\ SinkWaitResult(p) = "RUNNING"
    /\ node[p].epoch < MaxEpoch
    /\ slot' = [slot EXCEPT ![p] = <<node[p].epoch + 1, node[p].epoch + 1>>]
    /\ node' = [node EXCEPT ![p] = SinkPostNode(@)]
    /\ unacked' = [unacked EXCEPT ![p] = registered[p]]
    /\ UNCHANGED <<bound, registered>>
    /\ UNCHANGED <<prodVars, combVars, readVars>>
    /\ UNCHANGED sideVars

\* RUNNING -> END of an upstream node: the shutdown of its owner
ProducerShutdown(p) ==
    /\ ppc[p] = "wait"
    /\ node[p].state = "RUNNING"
    /\ node' = [node EXCEPT ![p] = EndNode(@)]
    /\ ppc' = [ppc EXCEPT ![p] = "done"]
    /\ UNCHANGED <<bound, slot, registered, unacked>>
    /\ UNCHANGED <<combVars, readVars>>
    /\ UNCHANGED sideVars

\* RUNNING -> END of the downstream node, at any time of the combiner's run
Shutdown ==
    /\ node[SinkNode].state = "RUNNING"
    /\ node' = [node EXCEPT ![SinkNode] = EndNode(@)]
    /\ UNCHANGED <<bound, slot, registered, unacked>>
    /\ UNCHANGED <<prodVars, combVars, readVars>>
    /\ UNCHANGED sideVars

\* ------------------------------------------- PositionCombiner::connectToNodes
\* variant of Touch: the epoch current at the touch() is not taken as seen
Touch_NoEpochRecord ==
    /\ pc = "touch"
    /\ node' = [node EXCEPT ![i] = SourceTouchNode(@)]
    /\ registered' = [registered EXCEPT ![i] = @ \cup {COMBINER}]
    /\ IF i + 1 = NumSources
          THEN pc' = "connect" /\ i' = 0
          ELSE pc' = "touch" /\ i' = i + 1
    /\ UNCHANGED <<bound, slot, unacked>>
    /\ UNCHANGED <<src_epoch, positions_, internal_position_, all_ts, warned, ret, calls, got>>
    /\ UNCHANGED <<prodVars, readVars>>
    /\ UNCHANGED <<n_acked, sideVars>>

\* variant of Touch: connecting starts after the first touch()
Touch_OnlyFirst ==
    /\ pc = "touch"
    /\ node' = [node EXCEPT ![i] = SourceTouchNode(@)]
    /\ registered' = [registered EXCEPT ![i] = @ \cup {COMBINER}]
    /\ src_epoch' = [src_epoch EXCEPT ![i] = node[i].epoch]
    /\ pc' = "connect"
    /\ i' = 0
    /\ UNCHANGED <<bound, slot, unacked>>
    /\ UNCHANGED <<positions_, internal_position_, all_ts, warned, ret, calls, got>>
    /\ UNCHANGED <<prodVars, readVars>>
    /\ UNCHANGED <<n_acked, sideVars>>

\* for (auto &ps : position_sources_) ps.source->touch(ps.name);
Touch ==
    /\ pc = "touch"
    /\ node' = [node EXCEPT ![i] = SourceTouchNode(@)]
    /\ registered' = [registered EXCEPT ![i] = @ \cup {COMBINER}]
    /\ src_epoch' = [src_epoch EXCEPT ![i] = node[i].epoch]
    /\ IF i + 1 = NumSources
          THEN pc' = "connect" /\ i' = 0
          ELSE pc' = "touch" /\ i' = i + 1
    /\ UNCHANGED <<bound, slot, unacked>>
    /\ UNCHANGED <<positions_, internal_position_, all_ts, warned, ret, calls, got>>
    /\ UNCHANGED <<prodVars, readVars>>
    /\ UNCHANGED <<n_acked, sideVars>>

\* variant of Connect: connect() returns before the Sink has bound the node
Connect_NoWait ==
    /\ pc = "connect"
    /\ node' = [node EXCEPT ![i] = SourceConnectNode(@)]
    /\ all_ts' = Append(all_ts, period_sec(i))
    /\ IF i + 1 = NumSources
          THEN pc' = "bind" /\ i' = 0
          ELSE pc' = "connect" /\ i' = i + 1
    /\ UNCHANGED <<bound, slot, registered, unacked>>
    /\ UNCHANGED <<src_epoch, positions_, internal_position_, warned, ret, calls, got>>
    /\ UNCHANGED <<prodVars, readVars>>
    /\ UNCHANGED <<n_acked, sideVars>>

\* Wait for sychronous start with sink when it binds the node:
\* ps.source->connect(); all_ts.push_back(...period_sec().count());
Connect ==
    /\ pc = "connect"
    /\ SourceConnectEnabled(i)
    /\ node' = [node EXCEPT ![i] = SourceConnectNode(@)]
    /\ all_ts' = Append(all_ts, period_sec(i))
    /\ IF i + 1 = NumSources
          THEN pc' = "bind" /\ i' = 0
          ELSE pc' = "connect" /\ i' = i + 1
    /\ UNCHANGED <<bound, slot, registered, unacked>>
    /\ UNCHANGED <<src_epoch, positions_, internal_position_, warned, ret, calls, got>>
    /\ UNCHANGED <<prodVars, readVars>>
    /\ UNCHANGED <<n_acked, sideVars>>

\* variant of BindSink: bind() on a bound address creates the segment anew
BindSink_Rebind ==
    /\ pc = "bind"
    /\ warned' = ~checkSamplePeriods(all_ts)
    /\ pc' = "idle"
    /\ bound' = [bound EXCEPT ![SinkNode] = TRUE]
    /\ node' = [node EXCEPT ![SinkNode] = IF bound[SinkNode] THEN InitNode ELSE @]
    /\ slot' = [slot EXCEPT ![SinkNode] = IF bound[SinkNode] THEN NoPos ELSE @]
    /\ UNCHANGED <<registered, unacked>>
    /\ UNCHANGED <<i, src_epoch, positions_, internal_position_, all_ts, ret, calls, got>>
    /\ UNCHANGED <<prodVars, readVars>>
    /\ UNCHANGED <<n_acked, sideVars>>

\* variant of BindSink: inconsistent periods end connectToNodes() with an error
BindSink_FatalMismatch ==
    /\ pc = "bind"
    /\ warned' = ~checkSamplePeriods(all_ts)
    /\ IF bound[SinkNode] \/ ~checkSamplePeriods(all_ts)
          THEN pc' = "failed" /\ UNCHANGED bound
          ELSE pc' = "idle" /\ bound' = [bound EXCEPT ![SinkNode] = TRUE]
    /\ UNCHANGED <<node, slot, registered, unacked>>
    /\ UNCHANGED <<i, src_epoch, positions_, internal_position_, all_ts, ret, calls, got>>
    /\ UNCHANGED <<prodVars, readVars>>
    /\ UNCHANGED <<n_acked, sideVars>>

\* checkSamplePeriods(...) warning; position_sink_.bind(...); retrieve()
BindSink ==
    /\ pc = "bind"
    /\ warned' = ~checkSamplePeriods(all_ts)
    /\ IF bound[SinkNode]
          THEN pc' = "failed" /\ UNCHANGED bound
          ELSE pc' = "idle" /\ bound' = [bound EXCEPT ![SinkNode] = TRUE]
    /\ UNCHANGED <<node, slot, registered, unacked>>
    /\ UNCHANGED <<i, src_epoch, positions_, internal_position_, all_ts, ret, calls, got>>
    /\ UNCHANGED <<prodVars, readVars>>
    /\ UNCHANGED <<n_acked, sideVars>>

\* ------------------------------------------------ PositionCombiner::process
\* variant of ProcessCall: the loop starts at i = 1
ProcessCall_OffByOne ==
    /\ pc = "idle"
    /\ pc' = "src_wait"
    /\ i' = IF NumSources > 1 THEN 1 ELSE 0
    /\ ret' = "none"
    /\ calls' = <<>>
    /\ UNCHANGED <<src_epoch, positions_, internal_position_, all_ts, warned, got>>
    /\ UNCHANGED <<nodeVars, prodVars, readVars>>
    /\ UNCHANGED <<n_acked, sideVars>>

\* the caller enters process(); the loop starts at i = 0
ProcessCall ==
    /\ pc = "idle"
    /\ pc' = "src_wait"
    /\ i' = 0
    /\ ret' = "none"
    /\ calls' = <<>>
    /\ UNCHANGED <<src_epoch, positions_, internal_position_, all_ts, warned, got>>
    /\ UNCHANGED <<nodeVars, prodVars, readVars>>
    /\ UNCHANGED <<n_acked, sideVars>>

\* variant of SrcWait: the state returned by wait() is discarded
SrcWait_IgnoreEnd ==
    /\ pc = "src_wait"
    /\ SourceWaitEnabled(i, src_epoch[i])
    /\ calls' = Append(calls, Call("wait", i, SourceWaitResult(i)))
    /\ pc' = "src_clone"
    /\ UNCHANGED <<i, src_epoch, positions_, internal_position_, all_ts, warned, ret, got>>
    /\ UNCHANGED <<nodeVars, prodVars, readVars>>
    /\ UNCHANGED <<n_acked, sideVars>>

\* variant of SrcWait: the returned state is compared with INIT instead of END
SrcWait_WrongState ==
    /\ pc = "src_wait"
    /\ SourceWaitEnabled(i, src_epoch[i])
    /\ calls' = Append(calls, Call("wait", i, SourceWaitResult(i)))
    /\ IF SourceWaitResult(i) = "INIT"
          THEN pc' = "stopped" /\ ret' = "true"
          ELSE pc' = "src_clone" /\ ret' = ret
    /\ UNCHANGED <<i, src_epoch, positions_, internal_position_, all_ts, warned, got>>
    /\ UNCHANGED <<nodeVars, prodVars, readVars>>
    /\ UNCHANGED <<n_acked, sideVars>>

\* variant of SrcWait: the source that returned END is acknowledged before returning
SrcWait_AckOnEnd ==
    /\ pc = "src_wait"
    /\ SourceWaitEnabled(i, src_epoch[i])
    /\ IF SourceWaitResult(i) = "END"
          THEN /\ pc' = "stopped" /\ ret' = "true"
               /\ calls' = calls \o <<Call("wait", i, "END"), Call("post", i, "-")>>
               /\ node' = [node EXCEPT ![i] = SourcePostNode(@)]
          ELSE /\ pc' = "src_clone" /\ ret' = ret
               /\ calls' = Append(calls, Call("wait", i, "RUNNING"))
               /\ node' = node
    /\ UNCHANGED <<i, src_epoch, positions_, internal_position_, all_ts, warned, got>>
    /\ UNCHANGED <<bound, slot, registered, unacked>>
    /\ UNCHANGED <<prodVars, readVars>>
    /\ UNCHANGED <<n_acked, sideVars>>

\* if (position_sources_[i].source->wait() == oat::NodeState::END) return true;
SrcWait ==
    /\ pc = "src_wait"
    /\ SourceWaitEnabled(i, src_epoch[i])
    /\ calls' = Append(calls, Call("wait", i, SourceWaitResult(i)))
    /\ IF SourceWaitResult(i) = "END"
          THEN pc' = "stopped" /\ ret' = "true"
          ELSE pc' = "src_clone" /\ ret' = ret
    /\ UNCHANGED <<i, src_epoch, positions_, internal_position_, all_ts, warned, got>>
    /\ UNCHANGED <<nodeVars, prodVars, readVars>>
    /\ UNCHANGED <<n_acked, sideVars>>

\* positions_[i] = position_sources_[i].source->clone();
SrcClone ==
    /\ pc = "src_clone"
    /\ positions_' = [positions_ EXCEPT ![i + 1] = slot[i]]
    /\ got' = [got EXCEPT ![i] = node[i].epoch]
    /\ calls' = Append(calls, Call("clone", i, "-"))
    /\ pc' = "src_post"
    /\ UNCHANGED <<i, src_epoch, internal_position_, all_ts, warned, ret>>
    /\ UNCHANGED <<nodeVars, prodVars, readVars>>
    /\ UNCHANGED <<n_acked, sideVars>>

\* variant of SrcPost: the post() is made on position_sources_[0]
SrcPost_WrongIndex ==
    /\ pc = "src_post"
    /\ node' = [node EXCEPT ![0] = SourcePostNode(@)]
    /\ unacked' = [unacked EXCEPT ![0] = @ \ {COMBINER}]
    /\ src_epoch' = [src_epoch EXCEPT ![0] = node[0].epoch]
    /\ calls' = Append(calls, Call("post", 0, "-"))
    /\ IF i + 1 = NumSources
          THEN pc' = "combine" /\ i' = i
          ELSE pc' = "src_wait" /\ i' = i + 1
    /\ UNCHANGED <<bound, slot, registered>>
    /\ UNCHANGED <<positions_, internal_position_, all_ts, warned, ret, got>>
    /\ UNCHANGED <<prodVars, readVars>>
    /\ n_acked' = [n_acked EXCEPT ![0] = @ + 1]
    /\ UNCHANGED sideVars

\* variant of SrcPost: the post() is left out
SrcPost_Missing ==
    /\ pc = "src_post"
    /\ IF i + 1 = NumSources
          THEN pc' = "combine" /\ i' = i
          ELSE pc' = "src_wait" /\ i' = i + 1
    /\ UNCHANGED <<src_epoch, positions_, internal_position_, all_ts, warned, ret, calls, got>>
    /\ UNCHANGED <<nodeVars, prodVars, readVars>>
    /\ UNCHANGED <<n_acked, sideVars>>

\* variant of SrcPost: the loop over the sources is left after the first post()
SrcPost_EarlyCombine ==
    /\ pc = "src_post"
    /\ node' = [node EXCEPT ![i] = SourcePostNode(@)]
    /\ unacked' = [unacked EXCEPT ![i] = @ \ {COMBINER}]
    /\ src_epoch' = [src_epoch EXCEPT ![i] = node[i].epoch]
    /\ calls' = Append(calls, Call("post", i, "-"))
    /\ pc' = "combine"
    /\ i' = i
    /\ UNCHANGED <<bound, slot, registered>>
    /\ UNCHANGED <<positions_, internal_position_, all_ts, warned, ret, got>>
    /\ UNCHANGED <<prodVars, readVars>>
    /\ n_acked' = [n_acked EXCEPT ![i] = @ + 1]
    /\ UNCHANGED sideVars

\* position_sources_[i].source->post(); i++
SrcPost ==
    /\ pc = "src_post"
    /\ node' = [node EXCEPT ![i] = SourcePostNode(@)]
    /\ unacked' = [unacked EXCEPT ![i] = @ \ {COMBINER}]
    /\ src_epoch' = [src_epoch EXCEPT ![i] = node[i].epoch]
    /\ calls' = Append(calls, Call("post", i, "-"))
    /\ IF i + 1 = NumSources
          THEN pc' = "combine" /\ i' = i
          ELSE pc' = "src_wait" /\ i' = i + 1
    /\ UNCHANGED <<bound, slot, registered>>
    /\ UNCHANGED <<positions_, internal_position_, all_ts, warned, ret, got>>
    /\ UNCHANGED <<prodVars, readVars>>
    /\ n_acked' = [n_acked EXCEPT ![i] = @ + 1]
    /\ UNCHANGED sideVars

\* variant of Combine: the combined value is not recomputed
Combine_NotApplied ==
    /\ pc = "combine"
    /\ calls' = Append(calls, Call("combine", SinkNode, "-"))
    /\ pc' = "sink_wait"
    /\ UNCHANGED <<i, src_epoch, positions_, internal_position_, all_ts, warned, ret, got>>
    /\ UNCHANGED <<nodeVars, prodVars, readVars>>
    /\ UNCHANGED <<n_acked, sideVars>>

\* combine(positions_, internal_position_);
Combine ==
    /\ pc = "combine"
    /\ internal_position_' = combine(positions_)
    /\ calls' = Append(calls, Call("combine", SinkNode, "-"))
    /\ pc' = "sink_wait"
    /\ UNCHANGED <<i, src_epoch, positions_, all_ts, warned, ret, got>>
    /\ UNCHANGED <<nodeVars, prodVars, readVars>>
    /\ UNCHANGED <<n_acked, sideVars>>

\* position_sink_.wait();   (the returned state is discarded)
SinkWait ==
    /\ pc = "sink_wait"
    /\ SinkWaitEnabled(SinkNode)
    /\ calls' = Append(calls, Call("wait", SinkNode, SinkWaitResult(SinkNode)))
    /\ pc' = "sink_write_x"
    /\ UNCHANGED <<i, src_epoch, positions_, internal_position_, all_ts, warned, ret, got>>
    /\ UNCHANGED <<nodeVars, prodVars, readVars>>
    /\ UNCHANGED <<n_acked, sideVars>>

\* *shared_position_ = internal_position_;   (first member)
SinkWriteX ==
    /\ pc = "sink_write_x"
    /\ slot' = [slot EXCEPT ![SinkNode] = <<internal_position_[1], @[2]>>]
    /\ calls' = Append(calls, Call("write", SinkNode, "-"))
    /\ pc' = "sink_write_y"
    /\ UNCHANGED <<bound, node, registered, unacked>>
    /\ UNCHANGED <<i, src_epoch, positions_, internal_position_, all_ts, warned, ret, got>>
    /\ UNCHANGED <<prodVars, readVars>>
    /\ UNCHANGED <<n_acked, sideVars>>

\* *shared_position_ = internal_position_;   (second member)
SinkWriteY ==
    /\ pc = "sink_write_y"
    /\ slot' = [slot EXCEPT ![SinkNode] = <<@[1], internal_position_[2]>>]
    /\ pc' = "sink_post"
    /\ UNCHANGED <<bound, node, registered, unacked>>
    /\ UNCHANGED <<i, src_epoch, positions_, internal_position_, all_ts, warned, ret, calls, got>>
    /\ UNCHANGED <<prodVars, readVars>>
    /\ UNCHANGED <<n_acked, sideVars>>

\* position_sink_.post(); return false;
SinkPost ==
    /\ pc = "sink_post"
    /\ node' = [node EXCEPT ![SinkNode] = SinkPostNode(@)]
    /\ unacked' = [unacked EXCEPT ![SinkNode] = registered[SinkNode]]
    /\ calls' = Append(calls, Call("post", SinkNode, "-"))
    /\ ret' = "false"
    /\ pc' = "idle"
    /\ UNCHANGED <<bound, slot, registered>>
    /\ UNCHANGED <<i, src_epoch, positions_, internal_position_, all_ts, warned, got>>
    /\ UNCHANGED <<prodVars, readVars>>
    /\ UNCHANGED <<n_acked, sideVars>>

\* ----------------------------------------------------- downstream consumers
\* A consumer touch()es, connect()s, then repeats wait(); clone(); post(), the
\* clone() and the post() in one step.
ReaderTouch(r) ==
    /\ rpc[r] = "touch"
    /\ registered' = [registered EXCEPT ![SinkNode] = @ \cup {r}]
    /\ r_epoch' = [r_epoch EXCEPT ![r] = node[SinkNode].epoch]
    /\ node' = [node EXCEPT ![SinkNode] = SourceTouchNode(@)]
    /\ rpc' = [rpc EXCEPT ![r] = "connect"]
    /\ UNCHANGED <<bound, slot, unacked, r_copy, r_got>>
    /\ UNCHANGED <<prodVars, combVars>>
    /\ UNCHANGED sideVars

ReaderConnect(r) ==
    /\ rpc[r] = "connect"
    /\ SourceConnectEnabled(SinkNode)
    /\ node' = [node EXCEPT ![SinkNode] = SourceConnectNode(@)]
    /\ rpc' = [rpc EXCEPT ![r] = "wait"]
    /\ UNCHANGED <<bound, slot, registered, unacked, r_epoch, r_copy, r_got>>
    /\ UNCHANGED <<prodVars, combVars>>
    /\ UNCHANGED sideVars

ReaderWait(r) ==
    /\ rpc[r] = "wait"
    /\ SourceWaitEnabled(SinkNode, r_epoch[r])
    /\ rpc' = [rpc EXCEPT ![r] = IF SourceWaitResult(SinkNode) = "END" THEN "done" ELSE "clone"]
    /\ UNCHANGED <<nodeVars, r_epoch, r_copy, r_got>>
    /\ UNCHANGED <<prodVars, combVars>>
    /\ UNCHANGED sideVars

ReaderClonePost(r) ==
    /\ rpc[r] = "clone"
    /\ r_copy' = [r_copy EXCEPT ![r] = slot[SinkNode]]
    /\ r_got' = [r_got EXCEPT ![r] = node[SinkNode].epoch]
    /\ node' = [node EXCEPT ![SinkNode] = SourcePostNode(@)]
    /\ unacked' = [unacked EXCEPT ![SinkNode] = @ \ {r}]
    /\ r_epoch' = [r_epoch EXCEPT ![r] = node[SinkNode].epoch]
    /\ rpc' = [rpc EXCEPT ![r] = "wait"]
    /\ UNCHANGED <<bound, slot, registered>>
    /\ UNCHANGED <<prodVars, combVars>>
    /\ UNCHANGED sideVars

\* -------------------------------------------------------------------- Next
Producer(p) ==
    \/ ProducerBind(p)
    \/ ProducerPublish(p)
    \/ ProducerShutdown(p)

Combiner ==
    \/ Touch
    \/ Connect
    \/ BindSink
    \/ ProcessCall
    \/ SrcWait
    \/ SrcClone
    \/ SrcPost
    \/ Combine
    \/ SinkWait
    \/ SinkWriteX
    \/ SinkWriteY
    \/ SinkPost

Reader(r) ==
    \/ ReaderTouch(r)
    \/ ReaderConnect(r)
    \/ ReaderWait(r)
    \/ ReaderClonePost(r)

Next ==
    \/ \E p \in Sources : Producer(p)
    \/ Combiner
    \/ \E r \in Readers : Reader(r)
    \/ Shutdown

Spec == Init /\ [][Next]_vars

\* a step of a process that goes on publishing or consuming: every step but the
\* shutdowns
Step ==
    \/ \E p \in Sources : ProducerBind(p) \/ ProducerPublish(p)
    \/ Combiner
    \/ \E r \in Readers : Reader(r)

\* the processes are scheduled: as long as one of them can take a step, a step is
\* taken
FairSpec == Spec /\ WF_vars(Step)

TypeOK ==
    /\ pc \in {"touch", "connect", "bind", "failed", "idle", "stopped", "src_wait", "src_clone",
               "src_post", "combine", "sink_wait", "sink_write_x", "sink_write_y", "sink_post"}
    /\ \A n \in Nodes : node[n].state \in {"INIT", "RUNNING", "END"}
    /\ \A n \in Nodes : node[n].pending_acks >= 0

\* ------------------------------------------------------------ properties
CallsWith(op, n) == {k \in 1 .. Len(calls) : calls[k].op = op /\ calls[k].src = n}

SourceEndSeen == \E k \in 1 .. Len(calls) :
                    calls[k].op = "wait" /\ calls[k].src \in Sources /\ calls[k].res = "END"

SinkEndSeen == \E k \in 1 .. Len(calls) :
                    calls[k].op = "wait" /\ calls[k].src = SinkNode /\ calls[k].res = "END"

\* C1: in a process() cycle in which the wait() on an upstream source returned END,
\* nothing is written to the downstream slot, the downstream post() is not called,
\* and process() has returned true.
C1_FanInShutdown ==
    SourceEndSeen =>
        /\ CallsWith("write", SinkNode) = {}
        /\ CallsWith("post", SinkNode) = {}
        /\ CallsWith("wait", SinkNode) = {}
        /\ pc = "stopped"
        /\ ret = "true"

\* END met on the second source, after the first one was drained in the same cycle
C1_Witness ==
    /\ Len(calls) = 4
    /\ calls[1] = Call("wait", 0, "RUNNING")
    /\ calls[4] = Call("wait", 1, "END")
    /\ pc = "stopped"

\* C2: in a process() cycle in which the wait() on the downstream sink returned END,
\* the derived value is not written, the downstream post() is not called and
\* process() does not return false.
C2_SinkEndChecked ==
    SinkEndSeen =>
        /\ CallsWith("write", SinkNode) = {}
        /\ CallsWith("post", SinkNode) = {}
        /\ ret # "false"

\* C3: on every edge the payload slot is written, and the epoch advanced, only when
\* every reader counted for the published epoch has acknowledged it; the downstream
\* slot is written only after the sink's wait() and before the sink's post() of the
\* running process() call.
C3_NoOverwrite ==
    [][ /\ \A n \in Nodes :
              (slot'[n] # slot[n] \/ node'[n].epoch # node[n].epoch) => unacked[n] = {}
        /\ slot'[SinkNode] # slot[SinkNode] =>
              /\ CallsWith("wait", SinkNode) # {}
              /\ CallsWith("post", SinkNode) = {}
      ]_vars

\* C4: every value obtained by a clone() is a value published as a whole by one
\* post(): both members belong to the same epoch, and a copy of an upstream payload
\* is the sample of the epoch that was current at the clone().
C4_NoTornRead ==
    /\ \A r \in Readers : r_copy[r][1] = r_copy[r][2]
    /\ \A s \in Sources : positions_[s + 1] = <<got[s], got[s]>>

\* C5: the state of every node only moves INIT -> RUNNING -> END, one step at a time
\* and never back, and every wait() that returns while its node is at END returns
\* END to its caller (the combiner on its sources and its sink, the downstream
\* readers).
C5_MonotoneState ==
    [][ /\ \A n \in Nodes :
              node'[n].state # node[n].state =>
                  <<node[n].state, node'[n].state>> \in {<<"INIT", "RUNNING">>, <<"RUNNING", "END">>}
        /\ (pc = "src_wait" /\ pc' # pc /\ node[i].state = "END") =>
              (pc' = "stopped" /\ ret' = "true")
        /\ (pc = "sink_wait" /\ pc' # pc /\ node[SinkNode].state = "END") =>
              calls'[Len(calls')] = Call("wait", SinkNode, "END")
        /\ \A r \in Readers :
              (rpc[r] = "wait" /\ rpc'[r] # rpc[r] /\ node[SinkNode].state = "END") => rpc'[r] = "done"
      ]_vars

\* the combiner was stopped by an END on a source, after that node had been RUNNING
\* and while an epoch it had not acknowledged was published there
C5_Witness ==
    /\ pc = "stopped"
    /\ node[i].state = "END"
    /\ node[i].epoch > src_epoch[i]

\* C8: the epochs a reader obtains by successive clone() calls are strictly
\* increasing, for the combiner on each source and for each downstream reader.
C8_InOrderEpochs ==
    [][ /\ (pc = "src_clone" /\ pc' = "src_post") => got'[i] > got[i]
        /\ \A r \in Readers : (rpc[r] = "clone" /\ rpc'[r] = "wait") => r_got'[r] > r_got[r]
      ]_vars

\* in its second or later cycle the combiner has just cloned a further epoch from
\* its last source
C8_Witness ==
    /\ node[SinkNode].epoch >= 1
    /\ got[NumSources - 1] >= 2
    /\ positions_[NumSources] = <<got[NumSources - 1], got[NumSources - 1]>>
    /\ pc = "src_post"
    /\ i = NumSources - 1
    /\ Len(calls) = 3 * NumSources - 1

RECURSIVE Drain(_)
Drain(k) == IF k = 0 THEN <<>>
            ELSE Drain(k - 1) \o <<<<"wait", k - 1>>, <<"clone", k - 1>>, <<"post", k - 1>>>>

CycleOrder == Drain(NumSources) \o <<<<"combine", SinkNode>>, <<"wait", SinkNode>>,
                                      <<"write", SinkNode>>, <<"post", SinkNode>>>>

Made == [k \in 1 .. Len(calls) |-> <<calls[k].op, calls[k].src>>]

\* C10: the calls of one process() cycle are a prefix of: wait, clone, post on source
\* 0, then on source 1, ... then combine, then wait, write, post on the sink; a wait on
\* a source is followed by its clone and post exactly when it returned RUNNING, and a
\* cycle that returns false has made the whole sequence.
C10_CycleOrder ==
    /\ Len(Made) <= Len(CycleOrder)
    /\ Made = SubSeq(CycleOrder, 1, Len(Made))
    /\ \A k \in 1 .. Len(calls) :
          (calls[k].op = "wait" /\ calls[k].src \in Sources /\ calls[k].res = "END") => k = Len(calls)
    /\ (pc = "idle" /\ ret = "false") => Made = CycleOrder
    /\ pc = "stopped" => calls[Len(calls)].op = "wait"
    /\ pc \in {"src_wait", "idle", "stopped"} =>
          Cardinality({k \in 1 .. Len(calls) : calls[k].op = "post" /\ calls[k].src \in Sources})
            = Cardinality({k \in 1 .. Len(calls) : calls[k].op = "wait" /\ calls[k].src \in Sources
                                                     /\ calls[k].res = "RUNNING"})

\* a complete cycle that returned false
C10_Witness ==
    /\ pc = "idle"
    /\ ret = "false"
    /\ Len(calls) = 3 * NumSources + 4

WaitingAtEnd ==
    \/ pc = "src_wait" /\ node[i].state = "END"
    \/ pc = "sink_wait" /\ node[SinkNode].state = "END"
    \/ \E r \in Readers : rpc[r] = "wait" /\ node[SinkNode].state = "END"

\* C6: under fair scheduling no process stays in a wait() on a node at END (the
\* combiner in Sink::wait(), the combiner or a downstream reader in Source::wait()),
\* and a wait() left while the node is at END has returned END.
C6_ShutdownWakes ==
    /\ []<>(~WaitingAtEnd)
    /\ [][ /\ (pc = "src_wait" /\ pc' # pc /\ node[i].state = "END") => pc' = "stopped"
           /\ (pc = "sink_wait" /\ pc' # pc /\ node[SinkNode].state = "END") => SinkEndSeen'
           /\ \A r \in Readers :
                 (rpc[r] = "wait" /\ rpc'[r] # rpc[r] /\ node[SinkNode].state = "END")
                     => rpc'[r] = "done"
         ]_vars

\* the combiner, blocked in its sink's wait() by an unacknowledged epoch, has been
\* woken by END
C6_Witness ==
    /\ SinkEndSeen
    /\ node[SinkNode].pending_acks > 0
    /\ pc = "sink_write_x"

NoEnd == \A n \in Nodes : node[n].state # "END"

\* the combiner no longer repeats wait(); clone(); post(): its bind() failed, or it
\* waits for an epoch beyond the last one its source publishes
CombinerStalled ==
    \/ pc = "failed"
    \/ /\ pc = "src_wait"
       /\ node[i].epoch = MaxEpoch
       /\ COMBINER \notin unacked[i]

\* a Sink::wait() that has not returned: of a producer that has epochs left to
\* publish, or of the combiner
SinkWaiting ==
    \/ \E p \in Sources : ppc[p] = "wait" /\ node[p].epoch < MaxEpoch
    \/ pc = "sink_wait"

\* C7: under fair scheduling, as long as no node is at END and every registered
\* reader keeps repeating wait(); clone(); post(), no Sink::wait() stays blocked:
\* neither the wait() of an upstream producer, whose reader is the combiner, nor
\* the combiner's wait() on its sink, whose readers are the downstream consumers;
\* and a Sink::wait() left while the node is not at END has returned RUNNING.
C7_RendezvousLiveness ==
    /\ []<>(~SinkWaiting \/ ~NoEnd \/ CombinerStalled)
    /\ [][ (pc = "sink_wait" /\ pc' # pc /\ node[SinkNode].state # "END") =>
               /\ calls'[Len(calls')] = Call("wait", SinkNode, "RUNNING")
               /\ unacked[SinkNode] = {}
         ]_vars

\* the combiner is blocked in its sink's wait(): a downstream reader has not yet
\* acknowledged the previous epoch
C7_Witness ==
    /\ pc = "sink_wait"
    /\ node[SinkNode].pending_acks > 0
    /\ unacked[SinkNode] # {}
    /\ NoEnd
    /\ \A r \in Readers : rpc[r] \in {"wait", "clone"}

\* C9 as stated: a wait() called while an epoch counted for this reader is published
\* and not yet acknowledged by it returns RUNNING without blocking; otherwise the
\* wait() blocks until a newer epoch or END; no epoch is delivered twice.
C9_Original ==
    /\ [](/\ (pc = "src_wait" /\ COMBINER \in unacked[i]) => ENABLED SrcWait
          /\ (pc = "src_wait" /\ COMBINER \notin unacked[i] /\ node[i].state # "END")
                => ~ENABLED SrcWait
          /\ \A r \in Readers :
                /\ (rpc[r] = "wait" /\ r \in unacked[SinkNode]) => ENABLED ReaderWait(r)
                /\ (rpc[r] = "wait" /\ r \notin unacked[SinkNode] /\ node[SinkNode].state # "END")
                      => ~ENABLED ReaderWait(r))
    /\ [][ /\ (pc = "src_wait" /\ pc' # pc /\ COMBINER \in unacked[i]) => pc' = "src_clone"
           /\ (pc = "src_clone" /\ pc' = "src_post") => got'[i] # got[i]
           /\ \A r \in Readers :
                /\ (rpc[r] = "wait" /\ rpc'[r] # rpc[r] /\ r \in unacked[SinkNode])
                      => rpc'[r] = "clone"
                /\ (rpc[r] = "clone" /\ rpc'[r] = "wait") => r_got'[r] # r_got[r]
         ]_vars

\* C9 (amended): as C9_Original, except that at END the wait() returns END, without
\* blocking, also when an unacknowledged epoch is published.
C9_LevelTriggered ==
    /\ [](/\ (pc = "src_wait" /\ COMBINER \in unacked[i]) => ENABLED SrcWait
          /\ (pc = "src_wait" /\ COMBINER \notin unacked[i] /\ node[i].state # "END")
                => ~ENABLED SrcWait
          /\ \A r \in Readers :
                /\ (rpc[r] = "wait" /\ r \in unacked[SinkNode]) => ENABLED ReaderWait(r)
                /\ (rpc[r] = "wait" /\ r \notin unacked[SinkNode] /\ node[SinkNode].state # "END")
                      => ~ENABLED ReaderWait(r))
    /\ [][ /\ (pc = "src_wait" /\ pc' # pc /\ COMBINER \in unacked[i]) =>
                pc' = (IF node[i].state = "END" THEN "stopped" ELSE "src_clone")
           /\ (pc = "src_clone" /\ pc' = "src_post") => got'[i] # got[i]
           /\ \A r \in Readers :
                /\ (rpc[r] = "wait" /\ rpc'[r] # rpc[r] /\ r \in unacked[SinkNode])
                      => rpc'[r] = (IF node[SinkNode].state = "END" THEN "done" ELSE "clone")
                /\ (rpc[r] = "clone" /\ rpc'[r] = "wait") => r_got'[r] # r_got[r]
         ]_vars

\* the combiner calls wait() on a source that has a further epoch published for it,
\* after it acknowledged an earlier one
C9_Witness ==
    /\ pc = "src_wait"
    /\ COMBINER \in unacked[i]
    /\ node[i].state = "RUNNING"
    /\ got[i] >= 1
    /\ node[i].epoch > got[i]

AnyEndSeen == SourceEndSeen \/ SinkEndSeen

\* C11: a process() cycle in which no wait() returned END has cloned every source
\* once, has published exactly one downstream epoch, whose value is the combine of
\* the local copies cloned in this cycle, and has returned false; the downstream
\* epoch advances only by one, at the post() that ends such a cycle, and a local copy
\* changes only by the clone() of its source.
C11_NormalCycle ==
    /\ []((pc \in {"idle", "stopped"} /\ ret # "none" /\ ~AnyEndSeen) =>
             /\ ret = "false"
             /\ \A s \in Sources : Cardinality(CallsWith("clone", s)) = 1
             /\ Cardinality(CallsWith("post", SinkNode)) = 1
             /\ internal_position_ = combine(positions_)
             /\ slot[SinkNode] = combine(positions_))
    /\ [][ /\ node'[SinkNode].epoch # node[SinkNode].epoch =>
                /\ pc = "sink_post" /\ pc' = "idle"
                /\ node'[SinkNode].epoch = node[SinkNode].epoch + 1
           /\ positions_' # positions_ =>
                /\ pc = "src_clone"
                /\ positions_' = [positions_ EXCEPT ![i + 1] = slot[i]]
         ]_vars

\* the second cycle without END has published the sum of the second samples
C11_Witness ==
    /\ pc = "idle"
    /\ ret = "false"
    /\ ~AnyEndSeen
    /\ node[SinkNode].epoch = 2
    /\ \A s \in Sources : positions_[s + 1] = <<2, 2>>
    /\ slot[SinkNode] = <<2 * NumSources, 2 * NumSources>>

\* C13: when the upstream periods disagree, connectToNodes() emits the warning and
\* binds the downstream sink all the same; no error state is entered; afterwards
\* every process() cycle in which no wait() returns END publishes one combined value
\* and returns false, and the cycles end only by an END on an upstream source.
C13_MismatchNotFatal ==
    /\ []((Len(all_ts) = NumSources /\ ~checkSamplePeriods(all_ts)) =>
             /\ pc # "failed"
             /\ pc # "bind" => (warned /\ bound[SinkNode])
             /\ (pc = "idle" /\ ret # "none" /\ ~AnyEndSeen) =>
                   /\ ret = "false"
                   /\ Cardinality(CallsWith("post", SinkNode)) = 1
                   /\ slot[SinkNode] = combine(positions_)
             /\ pc = "stopped" => SourceEndSeen)
    /\ [][ (pc = "bind" /\ pc' # pc /\ ~checkSamplePeriods(all_ts)) =>
               (warned' /\ pc' = "idle" /\ bound'[SinkNode])
         ]_vars

\* after the warning for 20 ms against 25 ms the first cycle has published
C13_Witness ==
    /\ all_ts = <<20, 25>>
    /\ warned
    /\ pc = "idle"
    /\ ret = "false"
    /\ node[SinkNode].epoch = 1
    /\ slot[SinkNode] = <<NumSources, NumSources>>

\* C14: connectToNodes() touch()es every upstream source exactly once, each touch()
\* raising that node's reader_count by exactly one and changing no other node; all
\* touch() calls are made before the first connect(), so every connect() is made on
\* a node the combiner is registered with.
C14_TouchBeforeConnect ==
    /\ [](/\ pc = "touch" =>
                \A s \in Sources : (COMBINER \in registered[s]) <=> (s < i)
          /\ pc # "touch" => \A s \in Sources : COMBINER \in registered[s]
          /\ \A s \in Sources :
                node[s].reader_count = IF COMBINER \in registered[s] THEN 1 ELSE 0)
    /\ [][ /\ (pc = "touch" /\ <<pc, i>>' # <<pc, i>>) =>
                /\ COMBINER \notin registered[i]
                /\ node'[i].reader_count = node[i].reader_count + 1
                /\ registered'[i] = registered[i] \cup {COMBINER}
                /\ \A n \in Nodes \ {i} : node'[n] = node[n] /\ registered'[n] = registered[n]
           /\ (pc = "connect" /\ <<pc, i>>' # <<pc, i>>) =>
                /\ \A s \in Sources : COMBINER \in registered[s]
                /\ node'[i].reader_count = node[i].reader_count
           /\ \A s \in Sources :
                node'[s].reader_count # node[s].reader_count => (pc = "touch" /\ i = s)
         ]_vars

\* the first connect() has been made, after the touch() of every source
C14_Witness ==
    /\ pc = "connect"
    /\ i = 1
    /\ Len(all_ts) = 1
    /\ \A s \in Sources : node[s].reader_count = 1
    /\ node[0].state = "RUNNING"

\* C18: the combiner acknowledges the sources in step: a source later in the order
\* has been acknowledged as often as an earlier one or once less; the downstream
\* epochs published never outnumber the acknowledgements of any source; a producer
\* is never more than one epoch ahead of the combiner's last acknowledgement; and
\* while the combiner is blocked on a source without a new epoch, every other producer
\* that is one epoch ahead is blocked in its wait().
C18_Lockstep ==
    /\ \A p, q \in Sources :
          p < q => (n_acked[q] <= n_acked[p] /\ n_acked[p] <= n_acked[q] + 1)
    /\ \A p \in Sources : node[SinkNode].epoch <= n_acked[p]
    /\ \A p \in Sources : COMBINER \in registered[p] => node[p].epoch <= src_epoch[p] + 1
    /\ (pc = "src_wait" /\ ~ENABLED SrcWait) =>
          \A p \in Sources \ {i} :
              node[p].epoch > src_epoch[p] => (SinkWaitEnabled(p) => node[p].state = "END")

\* the combiner is blocked on its second source, which has published nothing new; the
\* first producer, acknowledged once more, has published its next epoch and is blocked
C18_Witness ==
    /\ pc = "src_wait"
    /\ i = 1
    /\ ~ENABLED SrcWait
    /\ node[1].state = "RUNNING"
    /\ n_acked[0] = n_acked[1] + 1
    /\ node[0].epoch = src_epoch[0] + 1
    /\ node[0].state = "RUNNING"
    /\ ~SinkWaitEnabled(0)

\* C19: when process() has returned because the wait() on source i returned END, the
\* calls of that cycle are wait, clone, post on each of the sources 0..i-1 followed by
\* the wait on source i: no clone() or post() on source i, no call on a later source;
\* the return changes no node and no local copy, and a local copy changes only by a
\* clone() of its source, so the copies of the sources i..N-1 are those of the
\* previous cycle.
C19_PartialDrain ==
    /\ [](pc = "stopped" =>
             /\ Made = Drain(i) \o <<<<"wait", i>>>>
             /\ calls[Len(calls)].res = "END"
             /\ \A k \in 1 .. (Len(calls) - 1) : calls[k].op = "wait" => calls[k].res = "RUNNING"
             /\ \A s \in Sources :
                   /\ s < i => /\ Cardinality(CallsWith("clone", s)) = 1
                                /\ Cardinality(CallsWith("post", s)) = 1
                   /\ s >= i => (CallsWith("clone", s) = {} /\ CallsWith("post", s) = {})
                   /\ s > i => CallsWith("wait", s) = {})
    /\ [][ /\ (pc = "src_wait" /\ pc' = "stopped") =>
                /\ node' = node /\ unacked' = unacked /\ slot' = slot
                /\ positions_' = positions_ /\ n_acked' = n_acked /\ i' = i
           /\ \A k \in 1 .. NumSources :
                positions_'[k] # positions_[k] =>
                    (pc = "src_clone" /\ i = k - 1 /\ calls'[Len(calls')] = Call("clone", k - 1, "-"))
         ]_vars

\* in its second cycle the combiner cloned the second sample of source 0 and met END
\* on source 1, whose copy is still the first sample
C19_Witness ==
    /\ pc = "stopped"
    /\ i = 1
    /\ Len(calls) = 4
    /\ positions_[1] = <<2, 2>>
    /\ positions_[2] = <<1, 1>>
    /\ n_acked[0] = 2
    /\ n_acked[1] = 1

RivalBind(n) ==
    /\ rival_res = "none"
    /\ IF bound[n]
          THEN /\ rival_res' = "AddressInUse"
               /\ UNCHANGED <<bound, rival_owns>>
          ELSE /\ rival_res' = "ok"
               /\ bound' = [bound EXCEPT ![n] = TRUE]
               /\ rival_owns' = [rival_owns EXCEPT ![n] = TRUE]
    /\ UNCHANGED <<node, slot, registered, unacked>>
    /\ UNCHANGED <<prodVars, combVars, readVars, rateVars, cfgVars, netVars, calVars, motionVars>>

RivalPublish(n) ==
    /\ rival_owns[n]
    /\ SinkWaitEnabled(n)
    /\ SinkWaitResult(n) = "RUNNING"
    /\ node[n].epoch < MaxEpoch
    /\ slot' = [slot EXCEPT ![n] = <<node[n].epoch + 1, node[n].epoch + 1>>]
    /\ node' = [node EXCEPT ![n] = SinkPostNode(@)]
    /\ unacked' = [unacked EXCEPT ![n] = registered[n]]
    /\ UNCHANGED <<bound, registered>>
    /\ UNCHANGED <<prodVars, combVars, readVars, rivalVars, rateVars, cfgVars, netVars, calVars,
                   motionVars>>

BindNext ==
    \/ \E p \in Sources : Producer(p)
    \/ Combiner
    \/ \E n \in Nodes : RivalBind(n)
    \/ \E n \in Nodes : RivalPublish(n)

BindSpec == Init /\ [][BindNext]_vars

\* the processes that hold a bound Sink on address n
Holders(n) ==
    {p \in Sources : p = n /\ ppc[p] \in {"wait", "done"}}
      \cup (IF n = SinkNode /\ pc \notin {"touch", "connect", "bind", "failed"} THEN {"combiner"} ELSE {})
      \cup (IF rival_owns[n] THEN {"rival"} ELSE {})

\* C15: at most one process holds a bound Sink on an address, and an address is
\* bound exactly when a process holds its Sink; a bind() on a bound address fails
\* and leaves the binding, the Node and the payload of that address unchanged.
C15_SingleWriter ==
    /\ [](\A n \in Nodes : /\ Cardinality(Holders(n)) <= 1
                           /\ bound[n] <=> Holders(n) # {})
    /\ [][ /\ \A n \in Nodes : bound[n] => (bound'[n] /\ Holders(n)' = Holders(n))
           /\ (pc = "bind" /\ pc' # pc /\ bound[SinkNode]) =>
                (pc' = "failed" /\ node' = node /\ slot' = slot)
           /\ \A p \in Sources : (ppc[p] = "bind" /\ ppc'[p] # ppc[p] /\ bound[p]) =>
                (ppc'[p] = "failed" /\ node' = node /\ slot' = slot)
           /\ (rival_res = "none" /\ rival_res' # rival_res) =>
                \/ rival_res' = "AddressInUse" /\ node' = node /\ slot' = slot /\ bound' = bound
                \/ rival_res' = "ok" /\ \E n \in Nodes : ~bound[n] /\ rival_owns'[n]
         ]_vars

\* the combiner's bind() has failed on an address whose owner had published
C15_Witness ==
    /\ pc = "failed"
    /\ rival_owns[SinkNode]
    /\ node[SinkNode].epoch >= 1
    /\ slot[SinkNode] # NoPos

PeriodsMs == {10, 20, 25, 40}

PeriodSeqs == UNION {[1 .. n -> PeriodsMs] : n \in 1 .. MaxPeriods}

RateInit ==
    /\ PipelineInit
    /\ ConfigIdle
    /\ ToolsIdle
    /\ periods \in PeriodSeqs
    /\ rate_pc = "call"
    /\ consistent = FALSE
    /\ sample_rate_hz = 0

\* consistent = oat::checkSamplePeriods(periods, sample_rate_hz)
RateCheck ==
    /\ rate_pc = "call"
    /\ consistent' = checkSamplePeriods(periods)
    /\ sample_rate_hz' = effective_rate_hz(periods)
    /\ rate_pc' = "done"
    /\ UNCHANGED <<periods, nodeVars, prodVars, combVars, readVars, rivalVars, cfgVars, netVars,
                   calVars, motionVars>>

RateSpec == RateInit /\ [][RateCheck]_vars

PeriodSet == {periods[k] : k \in 1 .. Len(periods)}

\* C12: for every non-empty sequence of periods the rate checker reports consistent
\* exactly when the periods are all equal, and the rate 1 / (largest period) in both
\* cases; for 10, 10, 20 ms it reports inconsistent and 50 Hz, for 20, 25 ms 40 Hz.
C12_RateCheck ==
    rate_pc = "done" =>
        /\ consistent = (Cardinality(PeriodSet) = 1)
        /\ \E m \in PeriodSet :
              /\ \A x \in PeriodSet : x <= m
              /\ sample_rate_hz * m = 1000
        /\ periods = <<10, 10, 20>> => (~consistent /\ sample_rate_hz = 50)
        /\ periods = <<20, 25>> => (~consistent /\ sample_rate_hz = 40)

\* the checker has run on 10, 10, 20 ms
C12_Witness ==
    /\ rate_pc = "done"
    /\ periods = <<10, 10, 20>>
    /\ ~consistent
    /\ sample_rate_hz = 50

\* ------------------------------------------------------------ configure()
Components == {"FileReader", "RandomAccel2D", "HomographyGenerator"}

\* the configuration files a component may be given: rate is the entry frame_rate
\* (FileReader) or dt (RandomAccel2D); an invalid entry has the wrong type or lacks
\* a required field (roi: width); unknown is a key the component does not know
ConfigFiles(c) ==
    [parses : BOOLEAN, table : BOOLEAN,
     rate : IF c = "HomographyGenerator" THEN {"absent"} ELSE {"absent", "valid", "invalid"},
     roi : IF c = "FileReader" THEN {"absent", "valid", "invalid"} ELSE {"absent"},
     calibration : IF c = "FileReader" THEN {"absent", "valid", "invalid", "unopenable"}
                   ELSE {"absent"},
     unknown : IF c = "HomographyGenerator" THEN BOOLEAN ELSE {FALSE}]

\* what the build makes of '*get_as<T>(key)' on an entry that is not a T, or of a
\* lookup of a missing field: a default value, an exception, or a crash
DerefOutcomes == {"value", "throws", "crash"}

ConfigInit ==
    /\ PipelineInit
    /\ RateIdle
    /\ ToolsIdle
    /\ cfg_comp \in Components
    /\ cfg_in \in ConfigFiles(cfg_comp)
    /\ cfg_pc = "open"
    /\ cfg_set = {}

CfgFrame == UNCHANGED <<cfg_comp, cfg_in, nodeVars, prodVars, combVars, readVars, rivalVars, rateVars,
                        netVars, calVars, motionVars>>

\* FileReader::configure: parse_file (a parse_exception is printed), contains(config_key)
FileReaderOpen ==
    /\ cfg_comp = "FileReader"
    /\ cfg_pc = "open"
    /\ cfg_pc' = IF cfg_in.parses /\ cfg_in.table THEN "frame_rate" ELSE "exited"
    /\ UNCHANGED cfg_set
    /\ CfgFrame

\* if (this_config.contains("frame_rate")) { frame_rate_in_hz = ...; calculateFramePeriod(); }
FileReaderFrameRate ==
    /\ cfg_comp = "FileReader"
    /\ cfg_pc = "frame_rate"
    /\ \/ cfg_in.rate = "absent" /\ cfg_pc' = "roi" /\ UNCHANGED cfg_set
       \/ cfg_in.rate = "valid" /\ cfg_pc' = "roi" /\ cfg_set' = cfg_set \cup {"frame_rate_in_hz"}
       \/ /\ cfg_in.rate = "invalid"
          /\ \E o \in DerefOutcomes :
                \/ o = "value" /\ cfg_pc' = "roi" /\ cfg_set' = cfg_set \cup {"frame_rate_in_hz"}
                \/ o = "throws" /\ cfg_pc' = "returned" /\ UNCHANGED cfg_set
                \/ o = "crash" /\ cfg_pc' = "crashed" /\ UNCHANGED cfg_set
    /\ CfgFrame

\* if (this_config.contains("roi")) { x_offset, y_offset, width, height; use_roi = true }
\* else use_roi = false
FileReaderRoi ==
    /\ cfg_comp = "FileReader"
    /\ cfg_pc = "roi"
    /\ \/ cfg_in.roi = "absent" /\ cfg_pc' = "calibration" /\ cfg_set' = cfg_set \cup {"use_roi"}
       \/ /\ cfg_in.roi = "valid"
          /\ cfg_pc' = "calibration"
          /\ cfg_set' = cfg_set \cup {"x", "y", "width", "height", "use_roi"}
       \/ /\ cfg_in.roi = "invalid"
          /\ \E o \in DerefOutcomes :
                \/ /\ o = "value"
                   /\ cfg_pc' = "calibration"
                   /\ cfg_set' = cfg_set \cup {"x", "y", "width", "height", "use_roi"}
                \/ o = "throws" /\ cfg_pc' = "returned" /\ cfg_set' = cfg_set \cup {"x", "y"}
                \/ o = "crash" /\ cfg_pc' = "crashed" /\ cfg_set' = cfg_set \cup {"x", "y"}
    /\ CfgFrame

\* if (this_config.contains("calibration_file")) { fs.open(...); if (!fs.isOpened()) exit; ... }
FileReaderCalibration ==
    /\ cfg_comp = "FileReader"
    /\ cfg_pc = "calibration"
    /\ \/ cfg_in.calibration = "absent" /\ cfg_pc' = "returned" /\ UNCHANGED cfg_set
       \/ /\ cfg_in.calibration = "valid"
          /\ cfg_pc' = "returned"
          /\ cfg_set' = cfg_set \cup {"camera_matrix"}
       \/ cfg_in.calibration = "unopenable" /\ cfg_pc' = "exited" /\ UNCHANGED cfg_set
       \/ /\ cfg_in.calibration = "invalid"
          /\ UNCHANGED cfg_set
          /\ \E o \in DerefOutcomes :
                \/ o = "value" /\ cfg_pc' = "exited"
                \/ o = "throws" /\ cfg_pc' = "returned"
                \/ o = "crash" /\ cfg_pc' = "crashed"
    /\ CfgFrame

\* RandomAccel2D::configure: parse_file (a parse_exception is printed), contains(config_key)
RandomAccelOpen ==
    /\ cfg_comp = "RandomAccel2D"
    /\ cfg_pc = "open"
    /\ cfg_pc' = IF cfg_in.parses /\ cfg_in.table THEN "dt" ELSE "exited"
    /\ UNCHANGED cfg_set
    /\ CfgFrame

\* if (this_config.contains("dt")) sample_period_in_seconds = ...
RandomAccelDt ==
    /\ cfg_comp = "RandomAccel2D"
    /\ cfg_pc = "dt"
    /\ \/ cfg_in.rate = "absent" /\ cfg_pc' = "returned" /\ UNCHANGED cfg_set
       \/ /\ cfg_in.rate = "valid"
          /\ cfg_pc' = "returned"
          /\ cfg_set' = cfg_set \cup {"sample_period_in_seconds"}
       \/ /\ cfg_in.rate = "invalid"
          /\ \E o \in DerefOutcomes :
                \/ /\ o = "value"
                   /\ cfg_pc' = "returned"
                   /\ cfg_set' = cfg_set \cup {"sample_period_in_seconds"}
                \/ o = "throws" /\ cfg_pc' = "returned" /\ UNCHANGED cfg_set
                \/ o = "crash" /\ cfg_pc' = "crashed" /\ UNCHANGED cfg_set
    /\ CfgFrame

\* HomographyGenerator::configure: parse_file throws, checkKeys throws on an unknown
\* key, a missing table throws std::runtime_error
HomographyConfigure ==
    /\ cfg_comp = "HomographyGenerator"
    /\ cfg_pc = "open"
    /\ cfg_pc' = IF cfg_in.parses /\ cfg_in.table /\ ~cfg_in.unknown THEN "returned" ELSE "threw"
    /\ UNCHANGED cfg_set
    /\ CfgFrame

ConfigNext ==
    \/ FileReaderOpen
    \/ FileReaderFrameRate
    \/ FileReaderRoi
    \/ FileReaderCalibration
    \/ RandomAccelOpen
    \/ RandomAccelDt
    \/ HomographyConfigure

ConfigSpec == ConfigInit /\ [][ConfigNext]_vars

\* the file does not parse, lacks the table, or the table holds an invalid entry
InvalidConfig ==
    \/ ~cfg_in.parses
    \/ ~cfg_in.table
    \/ cfg_in.rate = "invalid"
    \/ cfg_in.roi = "invalid"
    \/ cfg_in.calibration \in {"invalid", "unopenable"}
    \/ cfg_in.unknown

\* C17: configure() returns normally only on a configuration file that parses, holds
\* the named table and has no invalid entry.
C17_ConfigFatal == cfg_pc = "returned" => ~InvalidConfig

\* -------------------------------------------------- a network of combiners
\* NumCombiners position combiners run connectToNodes() side by side.  Address k is
\* the position_sink_address_ of combiner k; address 0 is bound by an upstream
\* producer.  position_source_addresses[k] lists the addresses combiner k reads.
NumCombiners == 2

Combiners == 1 .. NumCombiners
Addrs == 0 .. NumCombiners

RECURSIVE SeqOf(_)
\* the elements of a set of addresses in ascending order
SeqOf(S) ==
    IF S = {} THEN <<>>
    ELSE LET m == CHOOSE x \in S : \A y \in S : y <= x
         IN Append(SeqOf(S \ {m}), m)

AddrLists == {SeqOf(S) : S \in (SUBSET Addrs) \ {{}}}

NetInit ==
    /\ PipelineInit
    /\ RateIdle
    /\ ConfigIdle
    /\ CalibIdle
    /\ MotionIdle
    /\ position_source_addresses \in [Combiners -> AddrLists]
    /\ c_pc = [k \in Combiners |-> "touch"]
    /\ c_i = [k \in Combiners |-> 1]
    /\ c_bound = [a \in Addrs |-> FALSE]

NetFrame == UNCHANGED <<position_source_addresses, nodeVars, prodVars, combVars, readVars,
                        rivalVars, rateVars, cfgVars, calVars, motionVars>>

\* the upstream producer binds its Sink
UpstreamBind ==
    /\ ~c_bound[0]
    /\ c_bound' = [c_bound EXCEPT ![0] = TRUE]
    /\ UNCHANGED <<c_pc, c_i>>
    /\ NetFrame

\* a connectToNodes() that binds its sink before it connects its sources
NetTouch_BindFirst(k) ==
    /\ c_pc[k] = "touch"
    /\ c_pc' = [c_pc EXCEPT ![k] = "connect"]
    /\ c_bound' = [c_bound EXCEPT ![k] = TRUE]
    /\ UNCHANGED c_i
    /\ NetFrame

\* connectToNodes(): for (auto &ps : position_sources_) ps.source->touch(ps.name);
NetTouch(k) ==
    /\ c_pc[k] = "touch"
    /\ c_pc' = [c_pc EXCEPT ![k] = "connect"]
    /\ UNCHANGED <<c_i, c_bound>>
    /\ NetFrame

\* connectToNodes(): ps.source->connect() of the source c_i[k], which returns once
\* the Sink of that address has bound
NetConnect(k) ==
    /\ c_pc[k] = "connect"
    /\ c_bound[position_source_addresses[k][c_i[k]]]
    /\ c_i' = [c_i EXCEPT ![k] = @ + 1]
    /\ c_pc' = [c_pc EXCEPT ![k] =
                  IF c_i[k] = Len(position_source_addresses[k]) THEN "bind" ELSE "connect"]
    /\ UNCHANGED c_bound
    /\ NetFrame

\* connectToNodes(): position_sink_.bind(position_sink_address_, ...)
NetBindSink(k) ==
    /\ c_pc[k] = "bind"
    /\ IF c_bound[k]
          THEN /\ c_pc' = [c_pc EXCEPT ![k] = "failed"]
               /\ UNCHANGED c_bound
          ELSE /\ c_pc' = [c_pc EXCEPT ![k] = "idle"]
               /\ c_bound' = [c_bound EXCEPT ![k] = TRUE]
    /\ UNCHANGED c_i
    /\ NetFrame

NetNext ==
    \/ UpstreamBind
    \/ \E k \in Combiners : NetTouch(k)
    \/ \E k \in Combiners : NetConnect(k)
    \/ \E k \in Combiners : NetBindSink(k)

NetSpec == NetInit /\ [][NetNext]_vars

\* the combiners whose connect() on address a has returned
Attached(a) ==
    {k \in Combiners : \E j \in 1 .. Len(position_source_addresses[k]) :
                          /\ j < c_i[k]
                          /\ position_source_addresses[k][j] = a}

\* the combiners whose output combiner k reads
ReadsFrom(k) ==
    {position_source_addresses[k][j] : j \in 1 .. Len(position_source_addresses[k])} \ {0}

RECURSIVE UpstreamOf(_, _)
\* the combiners that are at most n hops upstream of one of S
UpstreamOf(S, n) ==
    IF n = 0 THEN S
    ELSE UpstreamOf(S \cup UNION {ReadsFrom(k) : k \in S}, n - 1)

\* combiner k lies on a cycle of inputs and outputs
OnCycle(k) == k \in UpstreamOf(ReadsFrom(k), NumCombiners)

\* C21: while a connect() of combiner k is pending its downstream address is not
\* bound and no reader has attached to it, the address is bound only after every
\* connect() of k has returned, and a combiner on a cycle of inputs and outputs
\* never completes connectToNodes().
C21_BindLast ==
    \A k \in Combiners :
        /\ c_pc[k] \in {"touch", "connect"} => (~c_bound[k] /\ Attached(k) = {})
        /\ c_bound[k] => c_i[k] = Len(position_source_addresses[k]) + 1
        /\ OnCycle(k) => c_pc[k] \in {"touch", "connect"}

\* the upstream producer has bound, and two combiners that read each other are
\* both blocked in connect()
C21_Witness ==
    \E j, k \in Combiners :
        /\ j # k
        /\ c_bound[0]
        /\ j \in ReadsFrom(k)
        /\ k \in ReadsFrom(j)
        /\ c_pc[j] = "connect"
        /\ c_pc[k] = "connect"
        /\ ~ENABLED NetConnect(j)
        /\ ~ENABLED NetConnect(k)
        /\ \E a \in Combiners : c_pc[a] = "connect" /\ c_i[a] > 1

\* ------------------------------------------------ HomographyGenerator
\* The points of the image the user can click are 1 .. NumPts.  The world coordinate
\* of the scene point shown at pixel p is written p as well; the user enters that
\* coordinate, or one that is already in the data set, or text that is not a pair of
\* numbers (0).
NumPts == 5

Points == 1 .. NumPts
Methods == {"ROBUST", "REGULAR", "EXACT"}

\* the least number of data points of generateHomography()
MinPoints == 4

CalibInit ==
    /\ PipelineInit
    /\ RateIdle
    /\ ConfigIdle
    /\ NetIdle
    /\ MotionIdle
    /\ pixels_ = <<>>
    /\ world_points_ = <<>>
    /\ mouse_pt_ = 1
    /\ clicked_ \in BOOLEAN
    /\ method_ \in Methods
    /\ homography_ = "empty"
    /\ homography_valid_ = FALSE
    /\ fit_current = FALSE
    /\ cal_op = "constructed"
    /\ cal_ret = 0

CalibFrame == UNCHANGED <<nodeVars, prodVars, combVars, readVars, rivalVars, rateVars, cfgVars,
                          netVars, motionVars>>

\* std::find(v.begin(), v.end(), p) != v.end()
Found(v, p) == \E k \in 1 .. Len(v) : v[k] = p

\* v.erase(v.begin() + idx), idx counted from 0
Erase(v, idx) == [k \in 1 .. (Len(v) - 1) |-> IF k <= idx THEN v[k] ELSE v[k + 1]]

\* onMouseEvent(EVENT_LBUTTONDOWN, x, y)
onMouseEvent(p) ==
    /\ mouse_pt_' = p
    /\ clicked_' = TRUE
    /\ UNCHANGED <<pixels_, world_points_, method_, homography_, homography_valid_,
                   fit_current, cal_op, cal_ret>>
    /\ CalibFrame

\* an addDataPoint() that does not look for the entered world point in world_points_
addDataPoint_NoWorldCheck(w) ==
    /\ cal_op' = "addDataPoint"
    /\ IF ~clicked_ \/ Found(pixels_, mouse_pt_) \/ w = 0
          THEN /\ cal_ret' = -1
               /\ UNCHANGED <<pixels_, world_points_, fit_current>>
          ELSE /\ cal_ret' = 0
               /\ pixels_' = Append(pixels_, mouse_pt_)
               /\ world_points_' = Append(world_points_, w)
               /\ fit_current' = FALSE
    /\ UNCHANGED <<mouse_pt_, clicked_, method_, homography_, homography_valid_>>
    /\ CalibFrame

\* addDataPoint() with the user entering w
addDataPoint(w) ==
    /\ cal_op' = "addDataPoint"
    /\ IF \/ ~clicked_
          \/ Found(pixels_, mouse_pt_)
          \/ w = 0
          \/ Found(world_points_, w)
          THEN /\ cal_ret' = -1
               /\ UNCHANGED <<pixels_, world_points_, fit_current>>
          ELSE /\ cal_ret' = 0
               /\ pixels_' = Append(pixels_, mouse_pt_)
               /\ world_points_' = Append(world_points_, w)
               /\ fit_current' = FALSE
    /\ UNCHANGED <<mouse_pt_, clicked_, method_, homography_, homography_valid_>>
    /\ CalibFrame

\* removeDataPoint() with the user entering idx; -1 is text that is not an index, and
\* Len(pixels_) stands for every index that is out of bounds
removeDataPoint(idx) ==
    /\ cal_op' = "removeDataPoint"
    /\ IF idx = -1 \/ idx >= Len(pixels_)
          THEN /\ cal_ret' = -1
               /\ UNCHANGED <<pixels_, world_points_, fit_current>>
          ELSE /\ cal_ret' = 0
               /\ pixels_' = Erase(pixels_, idx)
               /\ world_points_' = Erase(world_points_, idx)
               /\ fit_current' = FALSE
    /\ UNCHANGED <<mouse_pt_, clicked_, method_, homography_, homography_valid_>>
    /\ CalibFrame

\* selectHomographyMethod() with the user entering sel; -1 is text that is not a
\* number.  After a valid selection the function ends without a return statement.
selectHomographyMethod(sel) ==
    /\ cal_op' = "selectHomographyMethod"
    /\ IF sel \in {0, 1, 2}
          THEN /\ method_' = (CASE sel = 0 -> "ROBUST" [] sel = 1 -> "REGULAR" [] sel = 2 -> "EXACT")
               /\ cal_ret' \in {0, -1}
          ELSE /\ cal_ret' = -1
               /\ UNCHANGED method_
    /\ UNCHANGED <<pixels_, world_points_, mouse_pt_, clicked_, homography_, homography_valid_,
                   fit_current>>
    /\ CalibFrame

\* what cv::findHomography returns: a matrix, or an empty one when no fit is found
FitOutcomes == {"computed", "empty"}

\* generateHomography()
generateHomography ==
    /\ cal_op' = "generateHomography"
    /\ IF Len(pixels_) < MinPoints \/ (method_ = "EXACT" /\ Len(pixels_) # MinPoints)
          THEN /\ cal_ret' = -1
               /\ UNCHANGED <<homography_, homography_valid_, fit_current>>
          ELSE /\ homography_' \in (IF method_ = "EXACT" THEN {"computed"} ELSE FitOutcomes)
               /\ fit_current' = (homography_' = "computed")
               /\ IF homography_' # "empty"
                     THEN /\ homography_valid_' = TRUE
                          /\ cal_ret' = 0
                     ELSE /\ cal_ret' = -1
                          /\ UNCHANGED homography_valid_
    /\ UNCHANGED <<pixels_, world_points_, mouse_pt_, clicked_, method_>>
    /\ CalibFrame

\* the world coordinates the user may enter after the last click
Entries == {0, mouse_pt_} \cup {world_points_[k] : k \in 1 .. Len(world_points_)}

CalibNext ==
    \/ \E p \in Points : onMouseEvent(p)
    \/ \E w \in Entries : addDataPoint(w)
    \/ \E idx \in -1 .. Len(pixels_) : removeDataPoint(idx)
    \/ \E sel \in -1 .. 3 : selectHomographyMethod(sel)
    \/ generateHomography

CalibSpec == CalibInit /\ [][CalibNext]_vars

NoDup(v) == \A j, k \in 1 .. Len(v) : v[j] = v[k] => j = k

\* C22: pixels_ and world_points_ have the same length, entry k of world_points_ is
\* the world coordinate entered for entry k of pixels_, neither holds a point twice,
\* and a call that returns -1 leaves both unchanged.
C22_PairedNoDup ==
    /\ [](/\ Len(pixels_) = Len(world_points_)
          /\ \A k \in 1 .. Len(pixels_) : world_points_[k] = pixels_[k]
          /\ NoDup(pixels_)
          /\ NoDup(world_points_))
    /\ [][cal_ret' = -1 /\ cal_op' \in {"addDataPoint", "removeDataPoint"}
            /\ <<cal_op, cal_ret>>' # <<cal_op, cal_ret>>
          => UNCHANGED <<pixels_, world_points_>>]_vars
    /\ [][<<pixels_, world_points_>>' # <<pixels_, world_points_>> => cal_ret' = 0]_vars

\* three points are held, the first one added has been removed, and the last call,
\* an addDataPoint() on a pixel already held, returned -1
C22_Witness ==
    /\ Len(pixels_) = 3
    /\ pixels_[1] > pixels_[2]
    /\ cal_op = "addDataPoint"
    /\ cal_ret = -1
    /\ clicked_
    /\ Found(pixels_, mouse_pt_)

\* generateHomography() on fewer than MinPoints points, or on other than MinPoints
\* points with the EXACT method
TooFewOrInexact == Len(pixels_) < MinPoints \/ (method_ = "EXACT" /\ Len(pixels_) # MinPoints)

\* the refusals of generateHomography() and the only way homography_valid_ rises
C23_Refusals ==
    /\ [][TooFewOrInexact =>
            /\ UNCHANGED <<homography_, homography_valid_>>
            /\ cal_op' = "generateHomography" => cal_ret' = -1]_vars
    /\ [][~homography_valid_ /\ homography_valid_' =>
            cal_op' = "generateHomography" /\ cal_ret' = 0]_vars

\* a valid flag stands for a homography computed from the data set now held
C23_ValidIsCurrent ==
    homography_valid_ =>
        /\ homography_ = "computed"
        /\ fit_current
        /\ Len(pixels_) >= MinPoints

\* C23: generateHomography() returns -1 and changes neither homography_ nor
\* homography_valid_ on fewer than 4 points or, with EXACT, on other than 4 points;
\* homography_valid_ becomes true only on a call that returns 0; and whenever
\* homography_valid_ holds, homography_ was computed from the data set now held,
\* which has at least 4 points.
C23_HomographyValid == C23_Refusals /\ []C23_ValidIsCurrent

\* ------------------------------------------------------------ RandomAccel2D
\* Periods are written in milliseconds.  The value sample_period_in_seconds holds
\* before configure() comes from the class declaration; it is any of DtValues.  One
\* axis of the state is kept, <<position, velocity>>; the other axis is built and
\* stepped alike.
MaxSteps == 2

DtValues == {10, 20, 40}
Accels == {-1, 0, 1}

MotionInit ==
    /\ PipelineInit
    /\ RateIdle
    /\ ConfigIdle
    /\ NetIdle
    /\ CalibIdle
    /\ sample_period_in_seconds \in DtValues
    /\ state_transition_mat = 0
    /\ input_mat = <<0, 0>>
    /\ state_ = <<0, 0>>
    /\ ra_pc = "new"
    /\ ra_steps = 0

MotionFrame == UNCHANGED <<nodeVars, prodVars, combVars, readVars, rivalVars, rateVars, cfgVars,
                           netVars, calVars>>

\* createStaticMatracies(): state_transition_mat(0, 1), and input_mat(0, 0), input_mat(1, 0)
createStaticMatracies(dt) == <<dt, <<(dt * dt) \div 2, dt>>>>

\* RandomAccel2D::RandomAccel2D()
RandomAccelConstruct ==
    /\ ra_pc = "new"
    /\ state_transition_mat' = createStaticMatracies(sample_period_in_seconds)[1]
    /\ input_mat' = createStaticMatracies(sample_period_in_seconds)[2]
    /\ state_' = <<0, 0>>
    /\ ra_pc' = "constructed"
    /\ UNCHANGED <<sample_period_in_seconds, ra_steps>>
    /\ MotionFrame

\* RandomAccel2D::configure() on a file whose table holds dt (0: it holds no dt)
RandomAccelConfigure(dt) ==
    /\ ra_pc = "constructed"
    /\ IF dt # 0
          THEN /\ sample_period_in_seconds' = dt
               /\ ra_pc' = "configured"
          ELSE /\ UNCHANGED sample_period_in_seconds
               /\ ra_pc' = "defaulted"
    /\ UNCHANGED <<state_transition_mat, input_mat, state_, ra_steps>>
    /\ MotionFrame

\* simulateMotion(): state = state_transition_mat * state + input_mat * accel_vec
simulateMotion(a) ==
    /\ ra_pc \in {"configured", "defaulted"}
    /\ ra_steps < MaxSteps
    /\ state_' = <<state_[1] + state_transition_mat * state_[2] + input_mat[1] * a,
                   state_[2] + input_mat[2] * a>>
    /\ ra_steps' = ra_steps + 1
    /\ UNCHANGED <<sample_period_in_seconds, state_transition_mat, input_mat, ra_pc>>
    /\ MotionFrame

MotionNext ==
    \/ RandomAccelConstruct
    \/ \E dt \in DtValues \cup {0} : RandomAccelConfigure(dt)
    \/ \E a \in Accels : simulateMotion(a)

MotionSpec == MotionInit /\ [][MotionNext]_vars

\* C24: once configure() has set sample_period_in_seconds from dt, every
\* simulateMotion() step has used matrices whose dt-dependent entries are built
\* from the configured sample_period_in_seconds.
C24_ConfiguredPeriod ==
    (ra_pc = "configured" /\ ra_steps > 0) =>
        /\ state_transition_mat = sample_period_in_seconds
        /\ input_mat = <<(sample_period_in_seconds * sample_period_in_seconds) \div 2,
                         sample_period_in_seconds>>
====
